---- MODULE Spec2Model ----
(***************************************************************************)
(* Model of the ABI decoding core of ganache-cli-block-explorer            *)
(* (package utils: LoadContractABIs, ParseTransactionData, formatValue,    *)
(* ParseEventLogs).                                                        *)
(*                                                                         *)
(* Byte strings are kept in a compressed form.  Call data is a record      *)
(*   [head, words, tail] : head is the first min(4, len) bytes, words the  *)
(*   whole 32-byte words that follow, tail the number of bytes left over   *)
(*   after the last whole word.  A 32-byte word is represented by a small  *)
(*   number standing for its content.  Log data is [words, tail].          *)
(* A topic (common.Hash) is a small number standing for its 32 bytes.      *)
(***************************************************************************)
EXTENDS Integers, Sequences, FiniteSets, TLC

VARIABLES loaded, registry, loadErr, call, order, result,
          pc, args, iter, idx, ret

vars == <<loaded, registry, loadErr, call, order, result,
          pc, args, iter, idx, ret>>

seqVars == <<call, order, result>>

concVars == <<pc, args, iter, idx, ret>>

-----------------------------------------------------------------------------
(* Bounds of the explored input space.                                     *)

MaxContracts == 2

MaxWords == 2

MaxTopics == 3

NumProcs == 2

-----------------------------------------------------------------------------
(* Generic helpers.                                                        *)

SeqsUpTo(S, n) == UNION {[1..k -> S] : k \in 0..n}

Range(s) == {s[i] : i \in DOMAIN s}

Perms(S) == {p \in [1..Cardinality(S) -> S] : Range(p) = S}

RECURSIVE SelectSeqInputs(_, _)
SelectSeqInputs(s, wantIndexed) ==
    IF s = <<>> THEN <<>>
    ELSE IF s[1].Indexed = wantIndexed
         THEN <<s[1]>> \o SelectSeqInputs(Tail(s), wantIndexed)
         ELSE SelectSeqInputs(Tail(s), wantIndexed)

-----------------------------------------------------------------------------
(* The interface descriptors that the files of the model hold.             *)

Arg(name, type, indexed) == [Name |-> name, Type |-> type, Indexed |-> indexed]

(* abi.Method.ID: the 4-byte selector, a hash of the canonical signature.  *)
Selector(sig) ==
    CASE sig = "transfer(address,uint256)" -> <<0, 0, 0, 1>>
      [] sig = "ping()"                    -> <<0, 0, 1, 0>>
      [] sig = "setName(string)"           -> <<0, 1, 0, 0>>
      [] sig = "setData(bytes)"            -> <<1, 0, 0, 0>>
      [] OTHER                             -> <<1, 1, 1, 1>>

(* abi.Event.ID: the 32-byte topic hash of the event signature.            *)
EventID(sig) ==
    CASE sig = "Transfer(address,address,uint256)" -> 1
      [] sig = "Ping()"                            -> 2
      [] sig = "Dup(uint256,uint256)"              -> 3
      [] OTHER                                     -> 4

NewMethod(name, sig, inputs) ==
    [Name |-> name, Sig |-> sig, ID |-> Selector(sig), Inputs |-> inputs]

NewEvent(name, sig, inputs) ==
    [Name |-> name, Sig |-> sig, ID |-> EventID(sig), Inputs |-> inputs]

EmptyABI == [Methods |-> {}, Events |-> {}]

TokenABI ==
    [Methods |->
        { NewMethod("transfer", "transfer(address,uint256)",
                    <<Arg("to", "address", FALSE), Arg("amount", "uint256", FALSE)>>),
          NewMethod("ping", "ping()", <<>>),
          NewMethod("setName", "setName(string)",
                    <<Arg("name", "string", FALSE)>>) },
     Events |->
        { NewEvent("Transfer", "Transfer(address,address,uint256)",
                   <<Arg("from", "address", TRUE), Arg("to", "address", TRUE),
                     Arg("value", "uint256", FALSE)>>),
          NewEvent("Ping", "Ping()", <<>>) }]

VaultABI ==
    [Methods |->
        { NewMethod("transfer", "transfer(address,uint256)",
                    <<Arg("dst", "address", FALSE), Arg("wad", "uint256", FALSE)>>),
          NewMethod("setData", "setData(bytes)",
                    <<Arg("blob", "bytes", FALSE)>>) },
     Events |->
        { NewEvent("Transfer", "Transfer(address,address,uint256)",
                   <<Arg("src", "address", TRUE), Arg("dst", "address", TRUE),
                     Arg("wad", "uint256", FALSE)>>),
          NewEvent("Dup", "Dup(uint256,uint256)",
                   <<Arg("x", "uint256", TRUE), Arg("x", "uint256", TRUE)>>) }]

Paths == {"Token.abi", "Vault.abi", "broken.abi", "absent.abi"}

Names == {"A", "B"}

(* os.ReadFile: the file of every path but "absent.abi" can be read; the   *)
(* bytes of a file are identified with its path.                           *)
ReadFile(path) ==
    IF path = "absent.abi"
    THEN [err |-> "no such file or directory", bytes |-> ""]
    ELSE [err |-> "", bytes |-> path]

(* abi.JSON: "broken.abi" is malformed, the others parse.                  *)
JSON(bytes) ==
    CASE bytes = "Token.abi" -> [err |-> "", abi |-> TokenABI]
      [] bytes = "Vault.abi" -> [err |-> "", abi |-> VaultABI]
      [] OTHER               -> [err |-> "invalid character", abi |-> EmptyABI]

-----------------------------------------------------------------------------
(* LoadContractABIs                                                        *)

ContractConfig == [Path : Paths, Name : Names]

ContractInfo(name, abi) == [Name |-> name, ABI |-> abi]

(* contractABIs[name] = info on a Go map: inserts or overwrites.           *)
MapPut(m, key, val) ==
    [k \in (DOMAIN m) \cup {key} |-> IF k = key THEN val ELSE m[k]]

EmptyMap == [k \in {} |-> 0]

RECURSIVE LoadLoop(_, _)
LoadLoop(cs, contractABIs) ==
    IF cs = <<>> THEN [abis |-> contractABIs, err |-> "", ok |-> TRUE]
    ELSE LET contract == cs[1]
             rd       == ReadFile(contract.Path)
             parsed   == JSON(rd.bytes)
         IN  IF rd.err # ""
             THEN [abis |-> EmptyMap, err |-> "failed to read ABI file", ok |-> FALSE]
             ELSE IF parsed.err # ""
             THEN [abis |-> EmptyMap, err |-> "failed to parse ABI for contract", ok |-> FALSE]
             ELSE LoadLoop(Tail(cs),
                           MapPut(contractABIs, contract.Name,
                                  ContractInfo(contract.Name, parsed.abi)))

LoadContractABIs(cs) == LoadLoop(cs, EmptyMap)

(* The names in the order in which the loop first stored them.             *)
RECURSIVE InsertionOrder(_, _)
InsertionOrder(cs, names) ==
    IF cs = <<>> THEN names
    ELSE InsertionOrder(Tail(cs),
                        IF cs[1].Name \in Range(names) THEN names
                        ELSE Append(names, cs[1].Name))

-----------------------------------------------------------------------------
(* Byte strings and the go-ethereum ABI decoder as the calls use it.       *)

(* The byte values told apart in a selector.                               *)
Byte == {0, 1}

(* The contents told apart in a 32-byte word.                              *)
WordVal == {0, 1}

(* Bytes left over after the last whole word: none, or some.               *)
Tails == {0, 1}

Payloads == [words : SeqsUpTo(WordVal, MaxWords), tail : Tails]

NoPayload == [words |-> <<>>, tail |-> 0]

TxDatas ==
    {[head |-> h, words |-> <<>>, tail |-> 0] : h \in SeqsUpTo(Byte, 3)}
    \cup {[head |-> h, words |-> p.words, tail |-> p.tail] :
              h \in [1..4 -> Byte], p \in Payloads}

(* len(data) *)
TxLen(data) == Len(data.head) + 32 * Len(data.words) + data.tail

PayloadLen(data) == 32 * Len(data.words) + data.tail

(* data[:4] and data[4:] of a call data of at least 4 bytes *)
MethodIDOf(data) == data.head

Rest(data) == [words |-> data.words, tail |-> data.tail]

GoValue(kind, content) == [k |-> kind, f |-> "raw", v |-> content]

(* abi.toGoType for the types of the model.  A static type reads the word  *)
(* at its head slot.  A dynamic type (string, bytes) reads an offset there,*)
(* a length at the offset and the content after it; a number n read as an  *)
(* offset or a length stands for n whole words.                            *)
ToGoType(slot, type, data) ==
    IF slot > Len(data.words)
    THEN [err |-> "abi: cannot marshal in to go type: length insufficient",
          val |-> GoValue("", <<>>)]
    ELSE IF type \in {"string", "bytes"}
    THEN LET offset == data.words[slot]
         IN  IF offset + 1 > Len(data.words)
             THEN [err |-> "abi: cannot marshal in to go slice: offset would go over slice boundary",
                   val |-> GoValue("", <<>>)]
             ELSE LET length == data.words[offset + 1]
                  IN  IF offset + 1 + length > Len(data.words)
                      THEN [err |-> "abi: cannot marshal in to go type: length insufficient",
                            val |-> GoValue("", <<>>)]
                      ELSE [err |-> "",
                            val |-> GoValue(type, SubSeq(data.words, offset + 2,
                                                         offset + 1 + length))]
    ELSE [err |-> "", val |-> GoValue(type, <<data.words[slot]>>)]

RECURSIVE UnpackValuesFrom(_, _, _)
UnpackValuesFrom(nonIndexed, slot, data) ==
    IF slot > Len(nonIndexed) THEN [err |-> "", vals |-> <<>>]
    ELSE LET one == ToGoType(slot, nonIndexed[slot].Type, data)
         IN  IF one.err # "" THEN [err |-> one.err, vals |-> <<>>]
             ELSE LET more == UnpackValuesFrom(nonIndexed, slot + 1, data)
                  IN  IF more.err # "" THEN more
                      ELSE [err |-> "", vals |-> <<one.val>> \o more.vals]

(* abi.Arguments.Unpack *)
Unpack(arguments, data) ==
    LET nonIndexed == SelectSeqInputs(arguments, FALSE)
    IN  IF PayloadLen(data) = 0
        THEN IF Len(nonIndexed) # 0
             THEN [err |-> "abi: attempting to unmarshal an empty string while arguments are expected",
                   vals |-> <<>>]
             ELSE [err |-> "", vals |-> <<>>]
        ELSE UnpackValuesFrom(nonIndexed, 1, data)

NoMethod == [Name |-> "", Sig |-> "", ID |-> <<>>, Inputs |-> <<>>]

(* abi.ABI.MethodById *)
MethodById(abi, methodID) ==
    LET hits == {m \in abi.Methods : m.ID = methodID}
    IN  IF hits = {} THEN [err |-> "no method with id", method |-> NoMethod]
        ELSE [err |-> "", method |-> CHOOSE m \in hits : TRUE]

-----------------------------------------------------------------------------
(* formatValue                                                             *)

(* A variant of formatValue without the common.Address case.               *)
formatValueNoAddress(value) ==
    CASE value.k = "bytes"   -> [k |-> "string", f |-> "Bytes2Hex", v |-> value.v]
      [] value.k = "string"  -> value
      [] OTHER               -> [k |-> "string", f |-> "Sprintf %v", v |-> value.v]

formatValue(value) ==
    CASE value.k = "address" -> [k |-> "string", f |-> "Hex", v |-> value.v]
      [] value.k = "bytes"   -> [k |-> "string", f |-> "Bytes2Hex", v |-> value.v]
      [] value.k = "string"  -> value
      [] OTHER               -> [k |-> "string", f |-> "Sprintf %v", v |-> value.v]

-----------------------------------------------------------------------------
(* ParseTransactionData                                                    *)

ParsedParameter(name, type, value, indexed) ==
    [Name |-> name, Type |-> type, Value |-> value, Indexed |-> indexed]

ParsedTxData(name, sig, parameters, error) ==
    [MethodName |-> name, MethodSignature |-> sig,
     Parameters |-> parameters, Error |-> error]

(* What a call returns, with the descriptors it consulted (tried) and      *)
(* whether it ran the decoder (decoded).                                   *)
Outcome(out, tried, decoded) == [out |-> out, tried |-> tried, decoded |-> decoded]

(* A variant of the length check that lets 3 bytes through.                *)
TooShortOffByOne(data) == TxLen(data) < 3

TooShort(data) == TxLen(data) < 4

TxTooShort ==
    ParsedTxData("", "", <<>>, "transaction data too short")

TxNotFound ==
    ParsedTxData("", "", <<>>, "method not found in any loaded contract ABI")

(* A variant of the unpack-failure return that drops the identification.   *)
TxUnpackFailedAnonymous(method, err) ==
    ParsedTxData("", "", <<>>, "failed to unpack inputs: " \o err)

TxUnpackFailed(method, err) ==
    ParsedTxData(method.Name, method.Sig, <<>>, "failed to unpack inputs: " \o err)

RECURSIVE TxParameters(_, _, _)
TxParameters(method, inputs, i) ==
    IF i > Len(method.Inputs) THEN <<>>
    ELSE IF i <= Len(inputs)
         THEN <<ParsedParameter(method.Inputs[i].Name, method.Inputs[i].Type,
                                formatValue(inputs[i]), FALSE)>>
              \o TxParameters(method, inputs, i + 1)
         ELSE TxParameters(method, inputs, i + 1)

TxMatched(method, data) ==
    LET unpacked == Unpack(method.Inputs, Rest(data))
    IN  IF unpacked.err # ""
        THEN TxUnpackFailed(method, unpacked.err)
        ELSE ParsedTxData(method.Name, method.Sig,
                          TxParameters(method, unpacked.vals, 1), "")

(* A variant of the loop that gives up after the first descriptor.         *)
TxLoopFirstOnly(contractABIs, rangeOrder, i, data) ==
    IF i > Len(rangeOrder)
    THEN Outcome(TxNotFound, rangeOrder, FALSE)
    ELSE LET found == MethodById(contractABIs[rangeOrder[i]].ABI, MethodIDOf(data))
         IN  IF found.err # ""
             THEN Outcome(TxNotFound, SubSeq(rangeOrder, 1, i), FALSE)
             ELSE Outcome(TxMatched(found.method, data), SubSeq(rangeOrder, 1, i), TRUE)

(* The range over the map visits the descriptors in the order rangeOrder. *)
RECURSIVE TxLoop(_, _, _, _)
TxLoop(contractABIs, rangeOrder, i, data) ==
    IF i > Len(rangeOrder)
    THEN Outcome(TxNotFound, rangeOrder, FALSE)
    ELSE LET found == MethodById(contractABIs[rangeOrder[i]].ABI, MethodIDOf(data))
         IN  IF found.err # ""
             THEN TxLoop(contractABIs, rangeOrder, i + 1, data)
             ELSE Outcome(TxMatched(found.method, data), SubSeq(rangeOrder, 1, i), TRUE)

ParseTransactionData(contractABIs, rangeOrder, data) ==
    IF TooShort(data)
    THEN Outcome(TxTooShort, <<>>, FALSE)
    ELSE TxLoop(contractABIs, rangeOrder, 1, data)

-----------------------------------------------------------------------------
(* ParseEventLogs                                                          *)

(* The topic values: the three event hashes of the model and another one. *)
TopicVal == {0, 1, 2, 3}

TopicLists == SeqsUpTo(TopicVal, MaxTopics)

(* common.Hash.Hex: the "0x..." text of a topic *)
Hex(topic) == [k |-> "string", f |-> "Hash.Hex", v |-> <<topic>>]

NoEvent == [Name |-> "", Sig |-> "", ID |-> 0, Inputs |-> <<>>]

(* abi.ABI.EventByID *)
EventByID(abi, eventID) ==
    LET hits == {e \in abi.Events : e.ID = eventID}
    IN  IF hits = {} THEN [err |-> "no event with id", event |-> NoEvent]
        ELSE [err |-> "", event |-> CHOOSE e \in hits : TRUE]

RECURSIVE PutAll(_, _, _, _)
PutAll(v, nonIndexed, vals, i) ==
    IF i > Len(nonIndexed) THEN v
    ELSE PutAll(MapPut(v, nonIndexed[i].Name, vals[i]), nonIndexed, vals, i + 1)

(* abi.Arguments.UnpackIntoMap *)
UnpackIntoMap(arguments, v, data) ==
    LET nonIndexed == SelectSeqInputs(arguments, FALSE)
    IN  IF PayloadLen(data) = 0
        THEN IF Len(nonIndexed) # 0
             THEN [err |-> "abi: attempting to unmarshal an empty string while arguments are expected",
                   map |-> v]
             ELSE [err |-> "", map |-> v]
        ELSE LET unpacked == UnpackValuesFrom(nonIndexed, 1, data)
             IN  IF unpacked.err # "" THEN [err |-> unpacked.err, map |-> v]
                 ELSE [err |-> "", map |-> PutAll(v, nonIndexed, unpacked.vals, 1)]

(* A variant of the empty-topics return that reports a failed lookup.      *)
EvNoTopicsAsNotFound ==
    ParsedTxData("", "", <<>>, "event not found in any loaded contract ABI")

EvNoTopics == ParsedTxData("", "", <<>>, "no topics in log")

EvNotFound ==
    ParsedTxData("", "", <<>>, "event not found in any loaded contract ABI")

EvUnpackFailed(event, err) ==
    ParsedTxData(event.Name, "", <<>>, "failed to unpack event data: " \o err)

(* Non-indexed parameters, in data *)
NonIndexedIntoMap(event, eventData, data) ==
    IF PayloadLen(data) > 0 /\ Len(SelectSeqInputs(event.Inputs, FALSE)) > 0
    THEN UnpackIntoMap(event.Inputs, eventData, data)
    ELSE [err |-> "", map |-> eventData]

(* A variant of the topic walk that does not skip topics[0].               *)
RECURSIVE IndexedIntoMapFromZero(_, _, _, _, _)
IndexedIntoMapFromZero(event, eventData, topics, i, topicIndex) ==
    IF i > Len(event.Inputs) THEN eventData
    ELSE IF event.Inputs[i].Indexed /\ topicIndex - 1 < Len(topics)
         THEN IndexedIntoMapFromZero(event,
                                     MapPut(eventData, event.Inputs[i].Name,
                                            Hex(topics[topicIndex])),
                                     topics, i + 1, topicIndex + 1)
         ELSE IndexedIntoMapFromZero(event, eventData, topics, i + 1, topicIndex)

(* Indexed parameters, in topics; topicIndex counts from 0 as in the code  *)
RECURSIVE IndexedIntoMap(_, _, _, _, _)
IndexedIntoMap(event, eventData, topics, i, topicIndex) ==
    IF i > Len(event.Inputs) THEN eventData
    ELSE IF event.Inputs[i].Indexed /\ topicIndex < Len(topics)
         THEN IndexedIntoMap(event,
                             MapPut(eventData, event.Inputs[i].Name,
                                    Hex(topics[topicIndex + 1])),
                             topics, i + 1, topicIndex + 1)
         ELSE IndexedIntoMap(event, eventData, topics, i + 1, topicIndex)

RECURSIVE EvParameters(_, _, _)
EvParameters(event, eventData, i) ==
    IF i > Len(event.Inputs) THEN <<>>
    ELSE IF event.Inputs[i].Name \in DOMAIN eventData
         THEN <<ParsedParameter(event.Inputs[i].Name, event.Inputs[i].Type,
                                formatValue(eventData[event.Inputs[i].Name]),
                                event.Inputs[i].Indexed)>>
              \o EvParameters(event, eventData, i + 1)
         ELSE EvParameters(event, eventData, i + 1)

(* A variant that records the unpack failure and goes on to the topics.    *)
EvMatchedContinuing(event, topics, data) ==
    LET unpacked == NonIndexedIntoMap(event, EmptyMap, data)
    IN  ParsedTxData(event.Name, event.Sig,
                     EvParameters(event,
                                  IndexedIntoMap(event, unpacked.map, topics, 1, 1),
                                  1),
                     IF unpacked.err # ""
                     THEN "failed to unpack event data: " \o unpacked.err
                     ELSE "")

EvMatched(event, topics, data) ==
    LET unpacked == NonIndexedIntoMap(event, EmptyMap, data)
    IN  IF unpacked.err # ""
        THEN EvUnpackFailed(event, unpacked.err)
        ELSE ParsedTxData(event.Name, event.Sig,
                          EvParameters(event,
                                       IndexedIntoMap(event, unpacked.map, topics, 1, 1),
                                       1),
                          "")

RECURSIVE EvLoop(_, _, _, _, _)
EvLoop(contractABIs, rangeOrder, i, topics, data) ==
    IF i > Len(rangeOrder)
    THEN Outcome(EvNotFound, rangeOrder, FALSE)
    ELSE LET found == EventByID(contractABIs[rangeOrder[i]].ABI, topics[1])
         IN  IF found.err # ""
             THEN EvLoop(contractABIs, rangeOrder, i + 1, topics, data)
             ELSE Outcome(EvMatched(found.event, topics, data),
                          SubSeq(rangeOrder, 1, i), TRUE)

NoTopics(topics) == Len(topics) = 0

ParseEventLogs(contractABIs, rangeOrder, topics, data) ==
    IF NoTopics(topics)
    THEN Outcome(EvNoTopics, <<>>, FALSE)
    ELSE EvLoop(contractABIs, rangeOrder, 1, topics, data)

-----------------------------------------------------------------------------
(* The program run sequentially: the registry is loaded once at startup,   *)
(* then decode calls are served one at a time.                             *)

Unset == [unset |-> TRUE]

NoCall == [kind |-> "none"]

NoOutcome == Outcome(ParsedTxData("", "", <<>>, ""), <<>>, FALSE)

Procs == 1..NumProcs

ContractLists == SeqsUpTo(ContractConfig, MaxContracts)

Init ==
    /\ loaded = <<>>
    /\ registry = Unset
    /\ loadErr = ""
    /\ call = NoCall
    /\ order = <<>>
    /\ result = NoOutcome
    /\ pc = [p \in Procs |-> "idle"]
    /\ args = [p \in Procs |-> NoCall]
    /\ iter = [p \in Procs |-> <<>>]
    /\ idx = [p \in Procs |-> 0]
    /\ ret = [p \in Procs |-> NoOutcome]

(* Startup: a failed load is fatal, the process serves nothing.            *)
Load(cs) ==
    /\ registry = Unset
    /\ loadErr = ""
    /\ LET got == LoadContractABIs(cs)
       IN  /\ loaded' = IF got.ok THEN InsertionOrder(cs, <<>>) ELSE <<>>
           /\ registry' = IF got.ok THEN got.abis ELSE Unset
           /\ loadErr' = got.err
    /\ UNCHANGED <<seqVars, concVars>>

Startup == \E cs \in ContractLists : Load(cs)

CallTx(data, rangeOrder) ==
    /\ call' = [kind |-> "tx", data |-> data, topics |-> <<>>]
    /\ order' = rangeOrder
    /\ result' = ParseTransactionData(registry, rangeOrder, data)
    /\ UNCHANGED <<loaded, registry, loadErr, concVars>>

CallEvent(topics, data, rangeOrder) ==
    /\ call' = [kind |-> "event", data |-> data, topics |-> topics]
    /\ order' = rangeOrder
    /\ result' = ParseEventLogs(registry, rangeOrder, topics, data)
    /\ UNCHANGED <<loaded, registry, loadErr, concVars>>

(* A request is served once the registry is loaded.  Ranging over the map *)
(* visits its keys in an order the runtime picks anew for every range.    *)
DecodeTx ==
    /\ registry # Unset
    /\ call = NoCall
    /\ \E data \in TxDatas : \E rangeOrder \in Perms(DOMAIN registry) :
           CallTx(data, rangeOrder)

DecodeEvent ==
    /\ registry # Unset
    /\ call = NoCall
    /\ \E topics \in TopicLists : \E data \in Payloads :
           \E rangeOrder \in Perms(DOMAIN registry) :
               CallEvent(topics, data, rangeOrder)

(* The caller has consumed the record; the next request can be served.     *)
Served ==
    /\ call # NoCall
    /\ call' = NoCall
    /\ order' = <<>>
    /\ result' = NoOutcome
    /\ UNCHANGED <<loaded, registry, loadErr, concVars>>

Next == Startup \/ DecodeTx \/ DecodeEvent \/ Served

Spec == Init /\ [][Next]_vars

-----------------------------------------------------------------------------
(* The program under concurrent requests: every process serves decode      *)
(* calls over the one registry; a call is split at each visit of the range *)
(* over the map, where another call may run in between.                    *)

TxCall(data) == [kind |-> "tx", data |-> data, topics |-> <<>>]

EvCall(topics, data) == [kind |-> "event", data |-> data, topics |-> topics]

ConcCalls ==
    { TxCall([head |-> <<0, 0, 0>>, words |-> <<>>, tail |-> 0]),
      TxCall([head |-> <<0, 0, 0, 1>>, words |-> <<0, 1>>, tail |-> 0]),
      TxCall([head |-> <<1, 1, 1, 1>>, words |-> <<>>, tail |-> 1]),
      EvCall(<<>>, [words |-> <<1>>, tail |-> 0]),
      EvCall(<<1, 2>>, [words |-> <<1>>, tail |-> 0]),
      EvCall(<<0>>, NoPayload) }

(* The checks a call makes before it ranges over the registry.             *)
EarlyReturn(a) ==
    IF a.kind = "tx" THEN TooShort(a.data) ELSE NoTopics(a.topics)

EarlyOutcome(a) ==
    IF a.kind = "tx" THEN Outcome(TxTooShort, <<>>, FALSE)
    ELSE Outcome(EvNoTopics, <<>>, FALSE)

NotFoundOutcome(a, rangeOrder) ==
    IF a.kind = "tx" THEN Outcome(TxNotFound, rangeOrder, FALSE)
    ELSE Outcome(EvNotFound, rangeOrder, FALSE)

(* The return of a call of process p: its locals go out of scope.          *)
Return(p, outcome) ==
    /\ ret' = [ret EXCEPT ![p] = outcome]
    /\ pc' = [pc EXCEPT ![p] = "idle"]
    /\ args' = [args EXCEPT ![p] = NoCall]
    /\ iter' = [iter EXCEPT ![p] = <<>>]
    /\ idx' = [idx EXCEPT ![p] = 0]

(* Process p is called with a; the range will visit the keys in rangeOrder *)
Enter(p, a, rangeOrder) ==
    /\ IF EarlyReturn(a)
       THEN Return(p, EarlyOutcome(a))
       ELSE IF rangeOrder = <<>>
       THEN Return(p, NotFoundOutcome(a, rangeOrder))
       ELSE /\ pc' = [pc EXCEPT ![p] = "range"]
            /\ args' = [args EXCEPT ![p] = a]
            /\ iter' = [iter EXCEPT ![p] = rangeOrder]
            /\ idx' = [idx EXCEPT ![p] = 1]
            /\ ret' = [ret EXCEPT ![p] = NoOutcome]
    /\ UNCHANGED <<loaded, registry, loadErr, seqVars>>

(* One iteration of the range of process p: what it does to p's locals.    *)
VisitLocals(p) ==
    LET a     == args[p]
        abi   == registry[iter[p][idx[p]]].ABI
        seen  == SubSeq(iter[p], 1, idx[p])
        found == IF a.kind = "tx"
                 THEN MethodById(abi, MethodIDOf(a.data)).err = ""
                 ELSE EventByID(abi, a.topics[1]).err = ""
    IN  IF found
        THEN IF a.kind = "tx"
             THEN Return(p, Outcome(TxMatched(MethodById(abi, MethodIDOf(a.data)).method,
                                              a.data), seen, TRUE))
             ELSE Return(p, Outcome(EvMatched(EventByID(abi, a.topics[1]).event,
                                              a.topics, a.data), seen, TRUE))
        ELSE IF idx[p] = Len(iter[p])
        THEN Return(p, NotFoundOutcome(a, iter[p]))
        ELSE /\ idx' = [idx EXCEPT ![p] = idx[p] + 1]
             /\ UNCHANGED <<pc, args, iter, ret>>

(* A variant of Visit that drops the visited descriptor from the registry. *)
VisitDropping(p) ==
    /\ pc[p] = "range"
    /\ VisitLocals(p)
    /\ registry' = [n \in (DOMAIN registry) \ {iter[p][idx[p]]} |-> registry[n]]
    /\ UNCHANGED <<loaded, loadErr, seqVars>>

Visit(p) ==
    /\ pc[p] = "range"
    /\ VisitLocals(p)
    /\ UNCHANGED <<loaded, registry, loadErr, seqVars>>

Request ==
    /\ registry # Unset
    /\ \E p \in Procs :
          /\ pc[p] = "idle"
          /\ \E a \in ConcCalls : \E rangeOrder \in Perms(DOMAIN registry) :
                Enter(p, a, rangeOrder)

Iterate == \E p \in Procs : Visit(p)

ConcNext == Startup \/ Request \/ Iterate

ConcSpec == Init /\ [][ConcNext]_vars

-----------------------------------------------------------------------------
(* Vocabulary of the properties.                                           *)

IsTx == registry # Unset /\ call.kind = "tx"

IsEv == registry # Unset /\ call.kind = "event"

out == result.out

Min(S) == CHOOSE x \in S : \A y \in S : x <= y

(* The loaded descriptors that hold a method with the call's selector.     *)
MethodHolders ==
    {n \in DOMAIN registry : \E m \in registry[n].ABI.Methods : m.ID = call.data.head}

MethodIn(n) == CHOOSE m \in registry[n].ABI.Methods : m.ID = call.data.head

(* The loaded descriptors that hold an event with the topic hash topics[0] *)
EventHolders ==
    {n \in DOMAIN registry : \E e \in registry[n].ABI.Events : e.ID = call.topics[1]}

EventIn(n) == CHOOSE e \in registry[n].ABI.Events : e.ID = call.topics[1]

(* Position of a name in the order of loading.                             *)
LoadIndex(n) == Min({i \in DOMAIN loaded : loaded[i] = n})

EarliestLoaded(holders) ==
    CHOOSE n \in holders : \A o \in holders : LoadIndex(n) <= LoadIndex(o)

(* Position in the range order of the first descriptor among holders.      *)
FirstVisit(holders) == Min({i \in DOMAIN order : order[i] \in holders})

TxHit == IsTx /\ TxLen(call.data) >= 4 /\ MethodHolders # {}

EvHit == IsEv /\ Len(call.topics) > 0 /\ EventHolders # {}

MatchedMethod == MethodIn(order[FirstVisit(MethodHolders)])

MatchedEvent == EventIn(order[FirstVisit(EventHolders)])

(* The decoder rejects the bytes after the selector for this method.       *)
TxDecodeFails(method) ==
    \/ PayloadLen(Rest(call.data)) = 0 /\ Len(method.Inputs) > 0
    \/ PayloadLen(Rest(call.data)) > 0
         /\ UnpackValuesFrom(method.Inputs, 1, Rest(call.data)).err # ""

(* The code runs the data decoder for this event and the decoder fails.    *)
EvDecodeFails(event) ==
    /\ PayloadLen(call.data) > 0
    /\ Len(SelectSeqInputs(event.Inputs, FALSE)) > 0
    /\ UnpackValuesFrom(SelectSeqInputs(event.Inputs, FALSE), 1, call.data).err # ""

IndexedOnly(params) == SelectSeq(params, LAMBDA q : q.Indexed)

NumIndexed(event) == Len(SelectSeqInputs(event.Inputs, TRUE))

DistinctNames(event) ==
    \A i, j \in DOMAIN event.Inputs :
        i # j => event.Inputs[i].Name # event.Inputs[j].Name

-----------------------------------------------------------------------------
(* C1: when two or more loaded descriptors hold a method with the call's   *)
(* selector, ParseTransactionData returns the record built from the method *)
(* of the descriptor that LoadContractABIs loaded earliest.                *)
C1_FirstMatchInLoadOrder ==
    (TxHit /\ Cardinality(MethodHolders) >= 2)
        => out = TxMatched(MethodIn(EarliestLoaded(MethodHolders)), call.data)

(* C2: when ParseEventLogs matches an event and decoding the non-indexed   *)
(* parameters fails, the record has a non-empty Error, the event's name in *)
(* MethodName, its signature in MethodSignature, and no parameters.        *)
C2_EventPartialSuccess ==
    (EvHit /\ EvDecodeFails(MatchedEvent))
        => /\ out.Error # ""
           /\ out.MethodName = MatchedEvent.Name
           /\ out.MethodSignature = MatchedEvent.Sig
           /\ out.Parameters = <<>>

(* C3: when ParseTransactionData matches a method and unpacking the rest   *)
(* of the data fails, the record has the method's name and signature, a    *)
(* non-empty Error and no parameters, and no descriptor after the matching *)
(* one is consulted.                                                       *)
C3_MethodPartialSuccess ==
    (TxHit /\ TxDecodeFails(MatchedMethod))
        => /\ out.MethodName = MatchedMethod.Name
           /\ out.MethodSignature = MatchedMethod.Sig
           /\ out.Error # ""
           /\ out.Parameters = <<>>
           /\ result.tried = SubSeq(order, 1, FirstVisit(MethodHolders))

C3_Witness ==
    /\ TxHit
    /\ TxDecodeFails(MatchedMethod)
    /\ Cardinality(MethodHolders) = 2
    /\ out.Error # ""
    /\ out.MethodName = "transfer"

-----------------------------------------------------------------------------
(* C4 as stated: in every returned record exactly one of the parameter     *)
(* list and the error is populated.                                        *)
C4_ExactlyOnePopulated ==
    (call # NoCall)
        => /\ out.Error # "" => out.Parameters = <<>>
           /\ out.Error = "" => out.Parameters # <<>>

(* No parameter is emitted for the matched member: a method without        *)
(* inputs, or an event none of whose parameters gets a value.              *)
NothingEmitted ==
    IF call.kind = "tx"
    THEN Len(MatchedMethod.Inputs) = 0
    ELSE /\ NumIndexed(MatchedEvent) = 0 \/ Len(call.topics) = 1
         /\ \/ PayloadLen(call.data) = 0
            \/ Len(SelectSeqInputs(MatchedEvent.Inputs, FALSE)) = 0

(* C4 amended: a non-empty Error never comes with parameters; a record     *)
(* with an empty Error has parameters unless the matched member emits      *)
(* none, and then both the list and the error are empty.                   *)
C4_NeverBoth ==
    (call # NoCall)
        => /\ out.Error # "" => out.Parameters = <<>>
           /\ out.Error = "" => (TxHit \/ EvHit)
           /\ out.Error = "" => (out.Parameters = <<>> <=> NothingEmitted)

C4_Witness ==
    /\ TxHit
    /\ MatchedMethod.Name = "ping"
    /\ out.Error = ""
    /\ out.Parameters = <<>>
    /\ out.MethodSignature = "ping()"

-----------------------------------------------------------------------------
(* The indexed parameters the record must hold when k topics follow        *)
(* topics[0]: the first k indexed parameters, the j-th with topics[j].     *)
ExpectedIndexed(event, topics) ==
    LET indexed == SelectSeqInputs(event.Inputs, TRUE)
        k       == Len(topics) - 1
    IN  [j \in 1..k |->
            ParsedParameter(indexed[j].Name, indexed[j].Type, Hex(topics[j + 1]), TRUE)]

Shortfall == EvHit /\ Len(call.topics) - 1 < NumIndexed(MatchedEvent)

(* C5 as stated: with fewer topics after topics[0] than indexed            *)
(* parameters, ParseEventLogs returns no error and the indexed parameters  *)
(* of the record are exactly the first k ones, carrying topics[1..k].      *)
C5_IndexedShortfall ==
    Shortfall
        => /\ out.Error = ""
           /\ IndexedOnly(out.Parameters) = ExpectedIndexed(MatchedEvent, call.topics)

(* C5 amended: the same, for an event whose parameter names are pairwise   *)
(* distinct and a data payload that the decoder does not reject.           *)
C5_IndexedShortfallDecoded ==
    (Shortfall /\ DistinctNames(MatchedEvent) /\ ~EvDecodeFails(MatchedEvent))
        => /\ out.Error = ""
           /\ IndexedOnly(out.Parameters) = ExpectedIndexed(MatchedEvent, call.topics)

C5_Witness ==
    /\ Shortfall
    /\ DistinctNames(MatchedEvent)
    /\ ~EvDecodeFails(MatchedEvent)
    /\ Len(call.topics) = 2
    /\ NumIndexed(MatchedEvent) = 2
    /\ Len(IndexedOnly(out.Parameters)) = 1
    /\ Len(out.Parameters) = 2

-----------------------------------------------------------------------------
(* C6: call data of 0..3 bytes yields the 'transaction data too short'     *)
(* record with empty name, signature and parameters, and neither a         *)
(* registry lookup nor a decoding is attempted.                            *)
C6_PayloadTooShort ==
    (IsTx /\ TxLen(call.data) < 4)
        => /\ out = ParsedTxData("", "", <<>>, "transaction data too short")
           /\ result.tried = <<>>
           /\ ~result.decoded

C6_Witness ==
    /\ IsTx
    /\ TxLen(call.data) = 3
    /\ Cardinality(DOMAIN registry) = 2
    /\ out.Error = "transaction data too short"

(* C7: call data of at least 4 bytes whose selector no loaded descriptor   *)
(* holds yields the 'method not found' record with empty name, signature   *)
(* and parameters; the error is never returned when a descriptor holds it. *)
C7_MethodNotFound ==
    (IsTx /\ TxLen(call.data) >= 4)
        => /\ MethodHolders = {}
                => out = ParsedTxData("", "", <<>>,
                                      "method not found in any loaded contract ABI")
           /\ out.Error = "method not found in any loaded contract ABI"
                => MethodHolders = {}

C7_Witness ==
    /\ IsTx
    /\ TxLen(call.data) >= 4
    /\ MethodHolders = {}
    /\ Cardinality(DOMAIN registry) = 2
    /\ out.Error = "method not found in any loaded contract ABI"

(* C8: an empty topic list yields the 'no topics in log' record with empty *)
(* name, signature and parameters, whatever the data and the registry, and *)
(* the registry is not consulted.                                          *)
C8_NoTopics ==
    (IsEv /\ call.topics = <<>>)
        => /\ out = ParsedTxData("", "", <<>>, "no topics in log")
           /\ result.tried = <<>>
           /\ ~result.decoded

C8_Witness ==
    /\ IsEv
    /\ call.topics = <<>>
    /\ PayloadLen(call.data) > 32
    /\ Cardinality(DOMAIN registry) = 2
    /\ out.Error = "no topics in log"

-----------------------------------------------------------------------------
(* The display form formatValue gives a decoded value of each type.        *)
ExpectedFormat(type) ==
    CASE type = "address" -> "Hex"
      [] type = "bytes"   -> "Bytes2Hex"
      [] type = "string"  -> "raw"
      [] OTHER            -> "Sprintf %v"

(* C9: on a successful method decode the record has one parameter per      *)
(* declared input, in declaration order: the i-th carries the i-th input's *)
(* name and type and the formatted i-th unpacked value, Indexed is false.  *)
C9_OneParameterPerInput ==
    (TxHit /\ out.Error = "")
        => LET inputs == MatchedMethod.Inputs
               values == UnpackValuesFrom(inputs, 1, Rest(call.data)).vals
           IN  /\ Len(out.Parameters) = Len(inputs)
               /\ \A i \in DOMAIN inputs :
                    /\ out.Parameters[i].Name = inputs[i].Name
                    /\ out.Parameters[i].Type = inputs[i].Type
                    /\ out.Parameters[i].Indexed = FALSE
                    /\ out.Parameters[i].Value.k = "string"
                    /\ out.Parameters[i].Value.f = ExpectedFormat(inputs[i].Type)
                    /\ out.Parameters[i].Value.v = values[i].v

C9_Witness ==
    /\ TxHit
    /\ out.Error = ""
    /\ Len(out.Parameters) = 2
    /\ out.Parameters[1].Value.f = "Hex"
    /\ out.Parameters[2].Value.f = "Sprintf %v"
    /\ out.Parameters[1].Value.v # out.Parameters[2].Value.v

-----------------------------------------------------------------------------
Locals(p) == <<pc[p], args[p], iter[p], idx[p], ret[p]>>

(* C10: once loaded, the registry is never written: every step of any      *)
(* interleaving of concurrent calls leaves the registry and the other      *)
(* state shared between calls as LoadContractABIs returned them, and       *)
(* changes the per-call state of at most one call.                         *)
C10_RegistryReadOnly ==
    [][ /\ registry # Unset
            => /\ registry' = registry
               /\ loaded' = loaded
               /\ loadErr' = loadErr
        /\ \A p, q \in Procs :
              p # q => (Locals(p)' = Locals(p) \/ Locals(q)' = Locals(q)) ]_vars

C10_Witness ==
    /\ registry # Unset
    /\ Cardinality(DOMAIN registry) = 2
    /\ pc[1] = "range"
    /\ pc[2] = "range"
    /\ args[1].kind = "tx"
    /\ args[2].kind = "event"
    /\ idx[1] = 2
    /\ idx[2] = 1
    /\ iter[1] # iter[2]

====
